---- MODULE Spec2Model ----
(***************************************************************************)
(* Dynamic Pricing API (dynamic-pricing-grocery/backend/app.py).           *)
(*                                                                         *)
(* The process loads a product table and an optional pair of predictor     *)
(* artifacts at import time, then serves requests from a thread pool.      *)
(* Numbers that are floats in the program are exact rationals here, with   *)
(* NaN as a separate value; round(x, 2) is round-half-to-even on the exact *)
(* value.  The product rows used below are ones for which float64          *)
(* arithmetic gives the same rounded results (their clip bounds are binary *)
(* fractions).                                                             *)
(***************************************************************************)
EXTENDS Integers, Sequences, FiniteSets, TLC

VARIABLES
    modelFile,   \* pricing_model.pkl on disk: "missing", "corrupt" or a regressor
    scalerFile,  \* scaler.pkl on disk: "missing", "corrupt" or a scaler
    phase,       \* "boot" | "serving" | "crashed"
    df,          \* the global DataFrame: [columns, rows]
    model,       \* the global model: None or the unpickled regressor
    scaler,      \* the global scaler: None or the unpickled scaler
    startup,     \* what module import left in df, model, scaler (history)
    pc,          \* per worker thread: "idle" or its place inside get_insights
    last,        \* the last request served and the response it was given
    calls        \* the calculate_dynamic_price calls of the last request

vars == <<modelFile, scalerFile, phase, df, model, scaler, startup, pc, last, calls>>

None == [tag |-> "None"]

-----------------------------------------------------------------------------
(* Numbers: exact rationals n/d in lowest terms with d > 0, or NaN.        *)

RECURSIVE GCD(_, _)
GCD(a, b) == IF b = 0 THEN a ELSE GCD(b, a % b)

Abs(x) == IF x < 0 THEN -x ELSE x

NaN == [nan |-> TRUE, n |-> 0, d |-> 1]

Q(n, d) ==
    LET g == GCD(Abs(n), d)
    IN  [nan |-> FALSE, n |-> n \div g, d |-> d \div g]

I(n) == Q(n, 1)

IsNaN(x) == x.nan

Add(a, b) == IF a.nan \/ b.nan THEN NaN ELSE Q(a.n * b.d + b.n * a.d, a.d * b.d)

Sub(a, b) == IF a.nan \/ b.nan THEN NaN ELSE Q(a.n * b.d - b.n * a.d, a.d * b.d)

Mul(a, b) == IF a.nan \/ b.nan THEN NaN ELSE Q(a.n * b.n, a.d * b.d)

\* numpy scalar division: 0/0 is nan (a RuntimeWarning, no exception).  x/0
\* with x # 0 would be +-inf; no arm covers it, so a run that reached it
\* would stop with an error: every other denominator of the program is >= 1
\* for stock >= 0, sales_7 >= 0 and base_price > 0.
Div(a, b) ==
    CASE a.nan \/ b.nan -> NaN
      [] ~(a.nan \/ b.nan) /\ b.n = 0 /\ a.n = 0 -> NaN
      [] ~(a.nan \/ b.nan) /\ b.n > 0 -> Q(a.n * b.d, a.d * b.n)
      [] ~(a.nan \/ b.nan) /\ b.n < 0 -> Q(-(a.n * b.d), a.d * (-b.n))

\* Comparisons with NaN are False.
Lt(a, b) == ~a.nan /\ ~b.nan /\ a.n * b.d < b.n * a.d

Le(a, b) == ~a.nan /\ ~b.nan /\ a.n * b.d <= b.n * a.d

Gt(a, b) == Lt(b, a)

\* np.clip(x, lo, hi) = minimum(maximum(x, lo), hi); NaN propagates.
Clip(x, lo, hi) ==
    IF x.nan \/ lo.nan \/ hi.nan THEN NaN
    ELSE LET m == IF Lt(x, lo) THEN lo ELSE x
         IN  IF Lt(hi, m) THEN hi ELSE m

\* round(x, 2) on a numpy float: rint(x * 100) / 100, ties to even.
Round2(x) ==
    IF x.nan THEN NaN
    ELSE LET num == x.n * 100
             fl  == num \div x.d
             rem == num - fl * x.d
             k   == IF 2 * rem < x.d THEN fl
                    ELSE IF 2 * rem > x.d THEN fl + 1
                    ELSE IF fl % 2 = 0 THEN fl ELSE fl + 1
         IN  Q(k, 100)

-----------------------------------------------------------------------------
(* The product table (data/groceries.csv read by pd.read_csv).             *)

MaxRows == 2

BaseColumns ==
    <<"product_id", "name", "category", "base_price", "stock", "sales_7", "sales_30", "day">>

\* One CSV line; base_price is given in cents.
Row(pid, name, cat, cents, stock, s7, s30, day) ==
    [product_id |-> pid, name |-> name, category |-> cat, base_price |-> Q(cents, 100),
     stock |-> stock, sales_7 |-> s7, sales_30 |-> s30, day |-> day]

\* Lines a groceries.csv may hold: base_price > 0, stock, sales >= 0.
\* product_id is not enforced unique ("Cheese" repeats id 1).
Catalogue ==
    { Row(1, "Milk",   "Dairy",  1000, 9,   20,  20, 3),
      Row(2, "Yogurt", "dairy",  1000, 0,   0,   0,  1),
      Row(3, "Bread",  "Bakery", 125,  0,   20,  50, 5),
      Row(4, "Rice",   "Grains", 250,  200, 403, 900, 2),
      Row(5, "Flour",  "Grains", 1000, 200, 202, 300, 6),
      Row(1, "Cheese", "dairy",  500,  9,   10,  40, 4) }

RECURSIVE SeqsUpTo(_, _)
SeqsUpTo(S, n) ==
    IF n = 0 THEN {<<>>}
    ELSE LET shorter == SeqsUpTo(S, n - 1)
         IN  shorter \cup {Append(q, x) : q \in {t \in shorter : Len(t) = n - 1}, x \in S}

Frames(rowsets) == {[columns |-> BaseColumns, rows |-> r] : r \in rowsets}

\* Every table of 1..MaxRows catalogue lines.
Datasets == Frames(SeqsUpTo(Catalogue, MaxRows) \ {<<>>})

\* The tables over the two lines that share product_id 1; their categories
\* differ in case only.
CoreCatalogue == {r \in Catalogue : r.product_id = 1}

CoreDatasets == Frames(SeqsUpTo(CoreCatalogue, MaxRows) \ {<<>>})

\* Longer tables, for the top-N selection: product_id is the line number
\* and each line has demand ratio 2 ("H") or 1/2 ("L").
MaxRowsTop == 11

TopRow(i, kind) ==
    IF kind = "H" THEN Row(i, "H", "Bakery", 250, 0, 2, 8, 1)
    ELSE Row(i, "L", "Grains", 1000, 1, 1, 4, 2)

TopDatasets ==
    Frames(UNION {{[i \in 1..n |-> TopRow(i, k[i])] : k \in [1..n -> {"H", "L"}]} :
                  n \in 1..MaxRowsTop})

\* str.lower() on the category strings in use.
Lower(str) ==
    CASE str = "Dairy"   -> "dairy"
      [] str = "DAIRY"   -> "dairy"
      [] str = "dairy"   -> "dairy"
      [] str = "Bakery"  -> "bakery"
      [] str = "bakery"  -> "bakery"
      [] str = "Grains"  -> "grains"
      [] str = "grains"  -> "grains"
      [] str = "Produce" -> "produce"
      [] str = "produce" -> "produce"

\* Python's string order (code points) on the category strings in the table.
CategoryOrder == <<"Bakery", "Dairy", "Grains", "dairy">>

CategoryRank(str) == CHOOSE i \in 1..Len(CategoryOrder) : CategoryOrder[i] = str

-----------------------------------------------------------------------------
(* The predictor artifacts written by model.py: a fitted StandardScaler    *)
(* and a fitted regressor.  The regressor is opaque to app.py; here it is  *)
(* a one-split tree over the scaled features.                              *)

Missing == [tag |-> "missing"]
Corrupt == [tag |-> "corrupt"]

Scalers ==
    { [tag |-> "scaler", mean |-> [i \in 1..6 |-> I(1)], scale |-> [i \in 1..6 |-> I(2)]] }

\* allow_nan: whether predict accepts NaN features (it depends on the
\* installed scikit-learn) or raises ValueError.
Models ==
    { [tag |-> "model", feature |-> 1, threshold |-> I(0),
       left |-> Q(50, 100), right |-> I(40), allow_nan |-> FALSE],
      [tag |-> "model", feature |-> 6, threshold |-> I(1),
       left |-> Q(130, 100), right |-> I(11), allow_nan |-> TRUE] }

\* scaler.transform(features): (x - mean) / scale per feature; NaN passes.
transform(s, features) ==
    [i \in 1..6 |-> Div(Sub(features[i], s.mean[i]), s.scale[i])]

ValueError == [tag |-> "raise", exc |-> "ValueError"]

\* model.predict(features_scaled)[0]
predict(m, scaled) ==
    IF (\E i \in 1..6 : IsNaN(scaled[i])) /\ ~m.allow_nan THEN ValueError
    ELSE IF Le(scaled[m.feature], m.threshold) THEN m.left ELSE m.right

IsRaise(r) == "exc" \in DOMAIN r

\* Python truthiness of the globals model and scaler.
Truthy(x) == x # None

-----------------------------------------------------------------------------
(* calculate_dynamic_price                                                 *)

RECURSIVE MaxOf(_)
MaxOf(S) ==
    LET x == CHOOSE y \in S : TRUE
    IN  IF S = {x} THEN x
        ELSE LET m == MaxOf(S \ {x}) IN IF x > m THEN x ELSE m

\* df['stock'].max()
StockMax(d) == MaxOf({d.rows[i].stock : i \in 1..Len(d.rows)})

\* df[df['product_id'] == product_id]: positions of the matching rows.
Matching(d, product_id) == {i \in 1..Len(d.rows) : d.rows[i].product_id = product_id}

MinOf(S) == CHOOSE x \in S : \A y \in S : x <= y

\* Lines 76-80.
Features(d, product) ==
    [demand_ratio    |-> Div(I(product.sales_7), I(product.stock + 1)),
     inventory_level |-> Div(I(product.stock), I(StockMax(d))),
     sales_trend     |-> Div(I(product.sales_30), I(product.sales_7 + 1)),
     popularity      |-> Div(I(product.sales_30), Add(Mul(product.base_price, I(product.stock)), I(1))),
     scarcity        |-> Div(I(1), I(product.stock + 1))]

\* Line 83: which predictor variant prices a product.
PredictorPath(m, s) == IF Truthy(m) /\ Truthy(s) THEN "model" ELSE "fallback"

\* Line 89.
FallbackPrice(base_price, f) ==
    Mul(base_price,
        Sub(Add(I(1), Mul(f.demand_ratio, Q(3, 10))), Mul(f.inventory_level, Q(2, 10))))

\* Lines 83-89.
PredictedPrice(m, s, product, f) ==
    IF PredictorPath(m, s) = "model"
    THEN predict(m, transform(s, <<f.demand_ratio, f.inventory_level, f.sales_trend,
                                   f.popularity, f.scarcity, I(product.day)>>))
    ELSE FallbackPrice(product.base_price, f)

\* Mutation: the thresholds compared with >= instead of >.
DemandLevelInclusive(demand_ratio) ==
    IF ~Lt(demand_ratio, I(2)) THEN "High"
    ELSE IF ~Lt(demand_ratio, I(1)) THEN "Medium"
    ELSE "Low"

\* Mutation: the two tests in the wrong order, so every ratio above 1 is High.
DemandLevelMisordered(demand_ratio) ==
    IF Gt(demand_ratio, I(1)) THEN "High"
    ELSE IF Gt(demand_ratio, I(2)) THEN "Medium"
    ELSE "Low"

\* Lines 98-103.
DemandLevel(demand_ratio) ==
    IF Gt(demand_ratio, I(2)) THEN "High"
    ELSE IF Gt(demand_ratio, I(1)) THEN "Medium"
    ELSE "Low"

\* Line 92.
ClipPrice(predicted_price, base_price) ==
    Clip(predicted_price, Mul(base_price, Q(1, 2)), Mul(base_price, Q(3, 2)))

calculate_dynamic_price(d, m, s, product_id) ==
    IF Matching(d, product_id) = {} THEN None
    ELSE LET product == d.rows[MinOf(Matching(d, product_id))]
             base_price == product.base_price
             f == Features(d, product)
             raw == PredictedPrice(m, s, product, f)
         IN  IF IsRaise(raw) THEN raw
             ELSE LET predicted_price == ClipPrice(raw, base_price)
                      discount_percent ==
                          Mul(Div(Sub(predicted_price, base_price), base_price), I(100))
                  IN  [base_price       |-> base_price,
                       dynamic_price    |-> Round2(predicted_price),
                       discount_percent |-> Round2(discount_percent),
                       demand_level     |-> DemandLevel(f.demand_ratio),
                       demand_ratio     |-> Round2(f.demand_ratio),
                       stock            |-> product.stock]

IsPricing(r) == "dynamic_price" \in DOMAIN r

\* One recorded call: its argument, what it returned, and the variant used.
Call(d, m, s, product_id) ==
    [product_id |-> product_id,
     result     |-> calculate_dynamic_price(d, m, s, product_id),
     path       |-> PredictorPath(m, s)]

-----------------------------------------------------------------------------
(* The handlers: what each returns for a given state of the globals.       *)

Response(req, status, body) == [req |-> req, status |-> status, body |-> body]

InternalServerError(req) == Response(req, 500, [detail |-> "Internal Server Error"])

\* The calls a loop over the product ids makes: it stops at the first call
\* that raises.
CallsFor(d, m, s, ids) ==
    LET all == [i \in 1..Len(ids) |-> Call(d, m, s, ids[i])]
        bad == {i \in 1..Len(ids) : IsRaise(all[i].result)}
    IN  IF bad = {} THEN all ELSE SubSeq(all, 1, MinOf(bad))

Raised(cs) == \E i \in 1..Len(cs) : IsRaise(cs[i].result)

\* A value returned by a handler is rendered as JSON, which has no NaN: a
\* returned pricing with a NaN price raises ValueError while the response
\* is built, and the request ends in the generic server error.
NotJsonCompliant(pricing) ==
    IsPricing(pricing) /\ (IsNaN(pricing.dynamic_price) \/ IsNaN(pricing.discount_percent))

AnyNotJsonCompliant(cs) == \E i \in 1..Len(cs) : NotJsonCompliant(cs[i].result)

\* Lines 129-141 and 178-190: one Product per row; the pricing is the one of
\* the first row carrying the row's product_id.
Products(rows, cs) ==
    [i \in 1..Len(rows) |->
        [product_id       |-> rows[i].product_id,
         name             |-> rows[i].name,
         category         |-> rows[i].category,
         base_price       |-> cs[i].result.base_price,
         stock            |-> cs[i].result.stock,
         dynamic_price    |-> cs[i].result.dynamic_price,
         discount_percent |-> cs[i].result.discount_percent,
         demand_level     |-> cs[i].result.demand_level]]

Ids(rows) == [i \in 1..Len(rows) |-> rows[i].product_id]

read_root_response ==
    Response([op |-> "read_root"], 200,
             [status |-> "success", message |-> "Dynamic Pricing API is running",
              version |-> "1.0.0"])

get_all_products_calls(d, m, s) == CallsFor(d, m, s, Ids(d.rows))

get_all_products_response(d, m, s) ==
    LET req == [op |-> "get_all_products"]
        cs  == get_all_products_calls(d, m, s)
    IN  IF Raised(cs) \/ AnyNotJsonCompliant(cs) THEN InternalServerError(req)
        ELSE Response(req, 200, Products(d.rows, cs))

get_product_calls(d, m, s, product_id) ==
    IF Matching(d, product_id) = {} THEN <<>> ELSE <<Call(d, m, s, product_id)>>

get_product_response(d, m, s, product_id) ==
    LET req == [op |-> "get_product", product_id |-> product_id]
    IN  IF Matching(d, product_id) = {}
        THEN Response(req, 404, [detail |-> <<"Product ", product_id, " not found">>])
        ELSE LET product == d.rows[MinOf(Matching(d, product_id))]
                 pricing == calculate_dynamic_price(d, m, s, product_id)
             IN  IF IsRaise(pricing) \/ NotJsonCompliant(pricing) THEN InternalServerError(req)
                 ELSE Response(req, 200,
                        [product_id       |-> product.product_id,
                         name             |-> product.name,
                         category         |-> product.category,
                         base_price       |-> pricing.base_price,
                         dynamic_price    |-> pricing.dynamic_price,
                         discount_percent |-> pricing.discount_percent,
                         demand_level     |-> pricing.demand_level,
                         demand_ratio     |-> pricing.demand_ratio,
                         stock            |-> pricing.stock,
                         sales_7_days     |-> product.sales_7,
                         sales_30_days    |-> product.sales_30])

\* Mutation: the category compared as written, without lower().
InCategoryCaseSensitive(d, category) ==
    SelectSeq(d.rows, LAMBDA r : r.category = category)

\* df[df['category'].str.lower() == category.lower()]
InCategory(d, category) ==
    SelectSeq(d.rows, LAMBDA r : Lower(r.category) = Lower(category))

get_products_by_category_calls(d, m, s, category) ==
    CallsFor(d, m, s, Ids(InCategory(d, category)))

get_products_by_category_response(d, m, s, category) ==
    LET req  == [op |-> "get_products_by_category", category |-> category]
        rows == InCategory(d, category)
        cs   == get_products_by_category_calls(d, m, s, category)
    IN  IF rows = <<>>
        THEN Response(req, 404, [detail |-> <<"Category ", category, " not found">>])
        ELSE IF Raised(cs) \/ AnyNotJsonCompliant(cs) THEN InternalServerError(req)
        ELSE Response(req, 200, Products(rows, cs))

\* df['category'].unique().tolist(), then sorted(): ascending code points.
RECURSIVE SortedCategories(_)
SortedCategories(S) ==
    IF S = {} THEN <<>>
    ELSE LET c == CHOOSE x \in S : \A y \in S : CategoryRank(x) <= CategoryRank(y)
         IN  <<c>> \o SortedCategories(S \ {c})

Categories(d) == {d.rows[i].category : i \in 1..Len(d.rows)}

get_categories_response(d) ==
    Response([op |-> "get_categories"], 200,
             [categories |-> SortedCategories(Categories(d)),
              total      |-> Cardinality(Categories(d))])

\* Mutation: no "Model not loaded" guard; with no predictor the call on None
\* raises and the request ends in the generic server error.
predict_price_unguarded(m, s, request) ==
    LET req == [op |-> "predict_price", request |-> request]
    IN  IF ~Truthy(m) \/ ~Truthy(s) THEN InternalServerError(req)
        ELSE LET predicted_price == predict(m, transform(s, request))
             IN  IF IsRaise(predicted_price) THEN InternalServerError(req)
                 ELSE Response(req, 200,
                        [predicted_price |-> Round2(predicted_price), confidence |-> "high"])

\* Lines 203-223; request is the six features of a PricingRequest.
predict_price_response(m, s, request) ==
    LET req == [op |-> "predict_price", request |-> request]
    IN  IF ~Truthy(m) \/ ~Truthy(s)
        THEN Response(req, 500, [detail |-> "Model not loaded"])
        ELSE LET predicted_price == predict(m, transform(s, request))
             IN  IF IsRaise(predicted_price) THEN InternalServerError(req)
                 ELSE Response(req, 200,
                        [predicted_price |-> Round2(predicted_price), confidence |-> "high"])

-----------------------------------------------------------------------------
(* get_insights                                                            *)

TopN == 10
LowStockBelow == 10

\* Line 230: df['demand_ratio'] = df['sales_7'] / (df['stock'] + 1) writes
\* the column into the global df.  The assignment is not atomic: pandas
\* first looks the label up in df.columns and then, when it found none,
\* inserts a new column at the end, and otherwise overwrites the column(s)
\* of that label.  Handlers run on worker threads, so another thread's
\* insertion can fall between the two steps.
HasColumn(d, c) == \E i \in 1..Len(d.columns) : d.columns[i] = c

WithDemandRatio(rows) ==
    [i \in 1..Len(rows) |->
        ("demand_ratio" :> Div(I(rows[i].sales_7), I(rows[i].stock + 1))) @@ rows[i]]

\* The label was absent at lookup: a column is appended, whatever df.columns
\* holds by now.
InsertDemandRatio(d) ==
    [columns |-> Append(d.columns, "demand_ratio"), rows |-> WithDemandRatio(d.rows)]

\* The label was present at lookup: the values are overwritten in place.
OverwriteDemandRatio(d) ==
    [columns |-> d.columns, rows |-> WithDemandRatio(d.rows)]

\* Line 230 run without interruption.
AssignDemandRatio(d) ==
    IF HasColumn(d, "demand_ratio") THEN OverwriteDemandRatio(d) ELSE InsertDemandRatio(d)

\* df.nlargest(n, 'demand_ratio') reads df['demand_ratio'].dtype; with the
\* label twice in df.columns that is a DataFrame and the read raises.
DuplicateColumn(d, c) ==
    \E i, j \in 1..Len(d.columns) : i < j /\ d.columns[i] = c /\ d.columns[j] = c

\* Mutation: on equal values the later row first (keep='last').
BeforeKeepLast(rows, i, j) ==
    \/ Gt(rows[i].demand_ratio, rows[j].demand_ratio)
    \/ rows[i].demand_ratio = rows[j].demand_ratio /\ i > j

\* Whether row i comes before row j in df.nlargest(n, 'demand_ratio'):
\* larger value first, and on equal values the earlier row (keep='first').
Before(rows, i, j) ==
    \/ Gt(rows[i].demand_ratio, rows[j].demand_ratio)
    \/ rows[i].demand_ratio = rows[j].demand_ratio /\ i < j

RECURSIVE Pick(_, _, _)
Pick(rows, remaining, n) ==
    IF n = 0 \/ remaining = {} THEN <<>>
    ELSE LET best == CHOOSE i \in remaining : \A j \in remaining \ {i} : Before(rows, i, j)
         IN  <<best>> \o Pick(rows, remaining \ {best}, n - 1)

\* Positions of df.nlargest(n, 'demand_ratio'), in result order.
nlargest(d, n) == Pick(d.rows, 1..Len(d.rows), n)

RECURSIVE SumInt(_)
SumInt(q) == IF q = <<>> THEN 0 ELSE Head(q) + SumInt(Tail(q))

RECURSIVE SumNum(_)
SumNum(q) == IF q = <<>> THEN I(0) ELSE Add(Head(q), SumNum(Tail(q)))

Column(rows, c) == [i \in 1..Len(rows) |-> rows[i][c]]

\* Lines 237-242: df.groupby('category').agg(...)
CategoryStats(d) ==
    [c \in Categories(d) |->
        LET rows == SelectSeq(d.rows, LAMBDA r : r.category = c)
        IN  [product_count |-> Len(rows),
             base_price    |-> Div(SumNum(Column(rows, "base_price")), I(Len(rows))),
             stock         |-> SumInt(Column(rows, "stock")),
             sales_7       |-> SumInt(Column(rows, "sales_7"))]]

\* Lines 231-253, on a frame that holds the demand_ratio column.
get_insights_response(d) ==
    LET top == nlargest(d, TopN)
        low == SelectSeq(d.rows, LAMBDA r : r.stock < LowStockBelow)
    IN  IF DuplicateColumn(d, "demand_ratio")
        THEN InternalServerError([op |-> "get_insights"])
        ELSE
        Response([op |-> "get_insights"], 200,
          [total_products      |-> Len(d.rows),
           total_stock         |-> SumInt(Column(d.rows, "stock")),
           total_sales_7days   |-> SumInt(Column(d.rows, "sales_7")),
           total_sales_30days  |-> SumInt(Column(d.rows, "sales_30")),
           average_price       |->
               Round2(Div(SumNum(Column(d.rows, "base_price")), I(Len(d.rows)))),
           top_demand_products |->
               [k \in 1..Len(top) |->
                   [product_id   |-> d.rows[top[k]].product_id,
                    name         |-> d.rows[top[k]].name,
                    demand_ratio |-> d.rows[top[k]].demand_ratio]],
           low_stock_alerts    |->
               [k \in 1..Len(low) |->
                   [product_id |-> low[k].product_id, name |-> low[k].name,
                    stock |-> low[k].stock]],
           category_statistics |-> CategoryStats(d)])

-----------------------------------------------------------------------------
(* The process: module import, then requests served by worker threads.     *)

Workers == {"w1", "w2"}

Unbound == [tag |-> "unbound"]

\* Requested ids; 9 is in no table.
ProductIds == {1, 2, 3, 4, 5, 9}

CoreIds == {1, 9}

CategoryQueries == {"DAIRY", "bakery", "Produce"}

PricingRequests ==
    { <<I(2), I(1), I(1), I(1), Q(1, 10), I(3)>>,
      <<I(0), I(0), I(0), I(0), I(1), I(6)>> }

NoResponse == Response(None, 0, None)

\* The state after line 52: the table is read, the artifacts are on disk.
InitWith(tables, modelFiles, scalerFiles) ==
    /\ modelFile \in modelFiles
    /\ scalerFile \in scalerFiles
    /\ phase = "boot"
    /\ df \in tables
    /\ model = Unbound
    /\ scaler = Unbound
    /\ startup = None
    /\ pc = [w \in Workers |-> "idle"]
    /\ last = NoResponse
    /\ calls = <<>>

Init == InitWith(CoreDatasets, {Missing, Corrupt} \cup Models, {Missing, Corrupt} \cup Scalers)

\* Lines 55-63: what the try block leaves in (model, scaler), or "crash" when
\* an exception other than FileNotFoundError leaves the module import.
LoadArtifacts(mf, sf) ==
    IF mf = Missing THEN [outcome |-> "serving", model |-> None, scaler |-> None]
    ELSE IF mf = Corrupt THEN [outcome |-> "crashed", model |-> Unbound, scaler |-> Unbound]
    ELSE IF sf = Missing THEN [outcome |-> "serving", model |-> None, scaler |-> None]
    ELSE IF sf = Corrupt THEN [outcome |-> "crashed", model |-> mf, scaler |-> Unbound]
    ELSE [outcome |-> "serving", model |-> mf, scaler |-> sf]

Startup ==
    /\ phase = "boot"
    /\ LET r == LoadArtifacts(modelFile, scalerFile)
       IN  /\ phase' = r.outcome
           /\ model' = r.model
           /\ scaler' = r.scaler
           /\ startup' = IF r.outcome = "serving"
                         THEN [df |-> df, model |-> r.model, scaler |-> r.scaler]
                         ELSE None
    /\ UNCHANGED <<modelFile, scalerFile, df, pc, last, calls>>

Free == phase = "serving" /\ \E w \in Workers : pc[w] = "idle"

Frame == UNCHANGED <<modelFile, scalerFile, phase, df, model, scaler, startup, pc>>

read_root ==
    /\ Free
    /\ last' = read_root_response
    /\ calls' = <<>>
    /\ Frame

get_all_products ==
    /\ Free
    /\ last' = get_all_products_response(df, model, scaler)
    /\ calls' = get_all_products_calls(df, model, scaler)
    /\ Frame

get_product(product_id) ==
    /\ Free
    /\ last' = get_product_response(df, model, scaler, product_id)
    /\ calls' = get_product_calls(df, model, scaler, product_id)
    /\ Frame

get_products_by_category(category) ==
    /\ Free
    /\ last' = get_products_by_category_response(df, model, scaler, category)
    /\ calls' = get_products_by_category_calls(df, model, scaler, category)
    /\ Frame

get_categories ==
    /\ Free
    /\ last' = get_categories_response(df)
    /\ calls' = <<>>
    /\ Frame

predict_price(request) ==
    /\ Free
    /\ last' = predict_price_response(model, scaler, request)
    /\ calls' = <<>>
    /\ Frame

\* A worker enters get_insights: line 230 evaluates its right-hand side and
\* looks the label up in df.columns.
get_insights_lookup(w) ==
    /\ phase = "serving"
    /\ pc[w] = "idle"
    /\ pc' = [pc EXCEPT ![w] = IF HasColumn(df, "demand_ratio") THEN "overwrite" ELSE "insert"]
    /\ UNCHANGED <<modelFile, scalerFile, phase, df, model, scaler, startup, last, calls>>

\* The worker completes line 230: it writes the column into the global df.
get_insights_assign(w) ==
    /\ phase = "serving"
    /\ pc[w] \in {"insert", "overwrite"}
    /\ df' = IF pc[w] = "insert" THEN InsertDemandRatio(df) ELSE OverwriteDemandRatio(df)
    /\ pc' = [pc EXCEPT ![w] = "line231"]
    /\ UNCHANGED <<modelFile, scalerFile, phase, model, scaler, startup, last, calls>>

\* The worker runs lines 231-253 and returns.
get_insights_respond(w) ==
    /\ phase = "serving"
    /\ pc[w] = "line231"
    /\ last' = get_insights_response(df)
    /\ calls' = <<>>
    /\ pc' = [pc EXCEPT ![w] = "idle"]
    /\ UNCHANGED <<modelFile, scalerFile, phase, df, model, scaler, startup>>

\* calculate_dynamic_price called on its own.
calculate(product_id) ==
    /\ Free
    /\ last' = Response([op |-> "calculate_dynamic_price", product_id |-> product_id], 0,
                        calculate_dynamic_price(df, model, scaler, product_id))
    /\ calls' = <<Call(df, model, scaler, product_id)>>
    /\ Frame

Next ==
    \/ Startup
    \/ read_root
    \/ get_all_products
    \/ \E product_id \in CoreIds : get_product(product_id)
    \/ \E category \in CategoryQueries : get_products_by_category(category)
    \/ get_categories
    \/ \E request \in PricingRequests : predict_price(request)
    \/ \E w \in Workers : get_insights_lookup(w)
    \/ \E w \in Workers : get_insights_assign(w)
    \/ \E w \in Workers : get_insights_respond(w)
    \/ \E product_id \in CoreIds : calculate(product_id)

Spec == Init /\ [][Next]_vars

\* Pricing over every table of catalogue lines.
InitPricing ==
    InitWith(Datasets, {Missing, Corrupt} \cup Models, {Missing, Corrupt} \cup Scalers)

NextPricing ==
    \/ Startup
    \/ get_all_products
    \/ \E product_id \in ProductIds : get_product(product_id)
    \/ \E product_id \in ProductIds : calculate(product_id)

SpecPricing == InitPricing /\ [][NextPricing]_vars

\* get_insights over the longer tables, no artifacts on disk.
InitTop == InitWith(TopDatasets \cup Datasets, {Missing}, {Missing})

NextTop ==
    \/ Startup
    \/ \E w \in Workers : get_insights_lookup(w)
    \/ \E w \in Workers : get_insights_assign(w)
    \/ \E w \in Workers : get_insights_respond(w)

SpecTop == InitTop /\ [][NextTop]_vars

-----------------------------------------------------------------------------
(* Properties.                                                             *)

Served == phase = "serving" /\ last # NoResponse

Op(name) == Served /\ last.req.op = name

PricingCalls == {i \in 1..Len(calls) : IsPricing(calls[i].result)}

\* The table row calculate_dynamic_price prices for a product_id.
FirstRow(product_id) ==
    df.rows[MinOf({i \in 1..Len(df.rows) : df.rows[i].product_id = product_id})]

\* C1: every pricing result has 0.5*base_price <= dynamic_price <=
\* 1.5*base_price, dynamic_price being the clipped price rounded to 2 decimals.
C1_PriceWithinBounds ==
    \A i \in PricingCalls :
        LET r == calls[i].result
        IN  /\ Le(Mul(Q(1, 2), r.base_price), r.dynamic_price)
            /\ Le(r.dynamic_price, Mul(Q(3, 2), r.base_price))

\* C2: demand_level is High when sales_7/(stock+1) > 2, Medium when it is in
\* (1, 2], Low when it is <= 1, and nothing else; ratio exactly 2 is Medium
\* and ratio exactly 1 is Low.
C2_DemandLevelThresholds ==
    \A i \in PricingCalls :
        LET row   == FirstRow(calls[i].product_id)
            s7    == row.sales_7
            denom == row.stock + 1
            level == calls[i].result.demand_level
        IN  /\ level \in {"High", "Medium", "Low"}
            /\ (level = "High") <=> (s7 > 2 * denom)
            /\ (level = "Medium") <=> (denom < s7 /\ s7 <= 2 * denom)
            /\ (level = "Low") <=> (s7 <= denom)

\* A product with ratio exactly 2 (stock 9, sales_7 20) was priced as Medium.
C2_Witness ==
    \E i \in PricingCalls :
        /\ FirstRow(calls[i].product_id).sales_7 = 20
        /\ FirstRow(calls[i].product_id).stock = 9
        /\ calls[i].result.demand_level = "Medium"

\* C3: while the process serves, the table and the predictor are what module
\* import left: no request changes rows, columns, values, model or scaler.
C3_SharedStateUnchanged ==
    phase = "serving" =>
        /\ df = startup.df
        /\ model = startup.model
        /\ scaler = startup.scaler

\* C4: once import is over, if either artifact could not be loaded (missing
\* or unreadable) the process is serving with model and scaler both absent
\* and every pricing uses the fallback formula.
C4_ArtifactFailureNotFatal ==
    (phase # "boot" /\ ~(modelFile \in Models /\ scalerFile \in Scalers)) =>
        /\ phase = "serving"
        /\ model = None
        /\ scaler = None
        /\ \A i \in 1..Len(calls) : calls[i].path = "fallback"

\* C5: a product lookup answers 404 exactly when no row has the product_id,
\* a category lookup answers 404 exactly when no row matches the category
\* ignoring case, a 404 carries no pricing, and calculate_dynamic_price
\* returns None exactly when no row has the product_id.
C5_NotFound ==
    /\ Op("get_product") =>
        /\ (last.status = 404) <=>
               ~\E i \in 1..Len(df.rows) : df.rows[i].product_id = last.req.product_id
        /\ last.status = 404 => (DOMAIN last.body = {"detail"} /\ calls = <<>>)
    /\ Op("get_products_by_category") =>
        /\ (last.status = 404) <=>
               ~\E i \in 1..Len(df.rows) :
                    Lower(df.rows[i].category) = Lower(last.req.category)
        /\ last.status = 404 => (DOMAIN last.body = {"detail"} /\ calls = <<>>)
    /\ Op("calculate_dynamic_price") =>
        ((last.body = None) <=>
            ~\E i \in 1..Len(df.rows) : df.rows[i].product_id = last.req.product_id)

\* A lookup of a product_id that is in no row was answered 404.
C5_Witness ==
    /\ Op("get_product")
    /\ last.status = 404
    /\ \A i \in 1..Len(df.rows) : df.rows[i].product_id # last.req.product_id

\* C6: predict_price answers the "Model not loaded" error exactly when no
\* predictor is loaded, which is exactly when calculate_dynamic_price takes
\* the fallback path.
C6_PredictorAvailability ==
    LET absent == model = None \/ scaler = None
    IN  /\ Op("predict_price") =>
            ((last.status = 500 /\ last.body = [detail |-> "Model not loaded"]) <=> absent)
        /\ Served => \A i \in 1..Len(calls) : (calls[i].path = "fallback") <=> absent

\* predict_price was refused while no predictor was loaded.
C6_Witness ==
    /\ Op("predict_price")
    /\ last.status = 500
    /\ model = None

RatioGt(r1, r2) == r1.sales_7 * (r2.stock + 1) > r2.sales_7 * (r1.stock + 1)

RatioEq(r1, r2) == r1.sales_7 * (r2.stock + 1) = r2.sales_7 * (r1.stock + 1)

UniqueIds ==
    \A i, j \in 1..Len(df.rows) : df.rows[i].product_id = df.rows[j].product_id => i = j

PosOf(product_id) == CHOOSE i \in 1..Len(df.rows) : df.rows[i].product_id = product_id

TopPositions == [k \in 1..Len(last.body.top_demand_products) |->
                    PosOf(last.body.top_demand_products[k].product_id)]

\* C7: top_demand_products has min(10, number of products) entries, is in
\* non-increasing order of sales_7/(stock+1), leaves out no product with a
\* larger ratio than one it holds, and keeps table order among equal ratios,
\* inside the list and at the cut-off.
C7_TopDemand ==
    (Op("get_insights") /\ last.status = 200) =>
        LET top == last.body.top_demand_products
            n   == Len(df.rows)
        IN  /\ Len(top) = IF n < TopN THEN n ELSE TopN
            /\ \A k, l \in 1..Len(top) : k < l => ~Lt(top[k].demand_ratio, top[l].demand_ratio)
            /\ UniqueIds =>
                LET pos == TopPositions
                    inc == {pos[k] : k \in 1..Len(top)}
                IN  /\ \A k \in 1..Len(top) :
                            top[k].demand_ratio =
                                Q(df.rows[pos[k]].sales_7, df.rows[pos[k]].stock + 1)
                    /\ \A k, l \in 1..Len(top) : k < l => pos[k] # pos[l]
                    /\ \A i \in inc, j \in (1..n) \ inc : ~RatioGt(df.rows[j], df.rows[i])
                    /\ \A k, l \in 1..Len(top) :
                            (k < l /\ RatioEq(df.rows[pos[k]], df.rows[pos[l]])) => pos[k] < pos[l]
                    /\ \A i \in inc, j \in (1..n) \ inc :
                            RatioEq(df.rows[i], df.rows[j]) => i < j

\* More than 10 products, with a tie across the cut-off: a product left out
\* has the same ratio as the last one listed.
C7_Witness ==
    /\ Op("get_insights")
    /\ last.status = 200
    /\ Len(df.rows) > TopN
    /\ UniqueIds
    /\ LET top == last.body.top_demand_products
           pos == TopPositions
       IN  /\ \E j \in 1..Len(df.rows) :
                /\ \A k \in 1..Len(top) : pos[k] # j
                /\ RatioEq(df.rows[j], df.rows[pos[Len(top)]])
           /\ \E k \in 1..Len(top) : Gt(top[k].demand_ratio, top[Len(top)].demand_ratio)

\* C8: on the fallback path every product of a table with stock >= 0,
\* sales >= 0 and base_price > 0 gets a defined price (no division by zero).
C8_FallbackTotal ==
    \A i \in PricingCalls :
        calls[i].path = "fallback" => ~IsNaN(calls[i].result.dynamic_price)

\* C9 as stated: demand_level agrees with the thresholds applied to the
\* reported (rounded) demand_ratio: High only if it is > 2, Medium only if it
\* is in (1, 2], Low only if it is <= 1.
C9_LevelMatchesReportedRatio ==
    \A i \in PricingCalls :
        LET r == calls[i].result
        IN  /\ r.demand_level = "High" => Gt(r.demand_ratio, I(2))
            /\ r.demand_level = "Medium" => (Gt(r.demand_ratio, I(1)) /\ Le(r.demand_ratio, I(2)))
            /\ r.demand_level = "Low" => Le(r.demand_ratio, I(1))

\* C9 amended: High only if the reported demand_ratio is >= 2, Medium only
\* if it is in [1, 2], Low only if it is <= 1.
C9_LevelMatchesReportedRatioClosed ==
    \A i \in PricingCalls :
        LET r == calls[i].result
        IN  /\ r.demand_level \in {"High", "Medium", "Low"}
            /\ r.demand_level = "High" => Le(I(2), r.demand_ratio)
            /\ r.demand_level = "Medium" => (Le(I(1), r.demand_ratio) /\ Le(r.demand_ratio, I(2)))
            /\ r.demand_level = "Low" => Le(r.demand_ratio, I(1))

\* A High product whose reported ratio is 2.0 and a Medium one reported 1.0.
C9_Witness ==
    \E i, j \in PricingCalls :
        /\ calls[i].result.demand_level = "High"
        /\ calls[i].result.demand_ratio = I(2)
        /\ calls[j].result.demand_level = "Medium"
        /\ calls[j].result.demand_ratio = I(1)

\* What a request is answered right after module import.
AtStartup(req) ==
    LET d == startup.df
        m == startup.model
        s == startup.scaler
    IN  CASE req.op = "read_root" -> read_root_response
          [] req.op = "get_all_products" -> get_all_products_response(d, m, s)
          [] req.op = "get_product" -> get_product_response(d, m, s, req.product_id)
          [] req.op = "get_products_by_category" ->
                get_products_by_category_response(d, m, s, req.category)
          [] req.op = "get_categories" -> get_categories_response(d)
          [] req.op = "predict_price" -> predict_price_response(m, s, req.request)
          [] req.op = "get_insights" -> get_insights_response(AssignDemandRatio(d))
          [] req.op = "calculate_dynamic_price" ->
                Response(req, 0, calculate_dynamic_price(d, m, s, req.product_id))

\* C10: the answer to a request does not depend on the requests served
\* before it or in flight with it: it is the answer the same request gets
\* right after startup.
C10_HistoryIndependent == Served => last = AtStartup(last.req)

====
